---- MODULE Spec2Model ----
(***************************************************************************)
(* State-machine model of train() in train_en.py: the skip-gram training   *)
(* controller (epoch loop, validation, best-checkpoint selection, early    *)
(* stopping, learning-rate decay) and the export of the embedding.         *)
(*                                                                         *)
(* Floating-point values (losses) are modelled as exact rationals extended *)
(* with +inf and NaN, with IEEE comparison semantics (every comparison     *)
(* with NaN is false).  The model parameters (weight and bias, updated     *)
(* together by the optimizer) are abstracted to one integer residue, so    *)
(* that a step with a non-zero gradient always changes them.              *)
(***************************************************************************)
EXTENDS Integers, Sequences, FiniteSets, TLC

\* ---------------------------------------------------------------- bounds
\* Largest epoch budget (args.epochs) explored; budgets -1 and 0 are included.
MaxEpochs == 6
\* len(train_loader): number of training batches per epoch.
NumTrainBatches == 2
\* len(val_loader): number of validation batches per epoch.
NumValBatches == 2
\* Largest finite per-batch validation loss (criterion output).
MaxBatchLoss == 1
\* Largest magnitude of a per-batch gradient and of the .grad buffer (it saturates).
MaxGrad == 1
\* The parameter value is kept as a residue in 0..MaxWeight.
MaxWeight == 1
\* Token indices are 0..MaxToken; sentences have at most MaxSentenceLen tokens.
MaxToken == 2
MaxSentenceLen == 3
\* Largest window radius (args.window_size) explored.
MaxWindow == 2
\* Longest pair sequence handed to the split; seeds are 0..MaxSeed.
MaxPairs == 5
MaxSeed == 2

\* ------------------------------------------------------ program constants
\* stop_count >= 5 (early-stopping patience)
Patience == 5
\* ExponentialLR(optimizer, gamma=0.7), kept as the fraction 7/10
GammaNum == 7
GammaDen == 10

VARIABLES
    pc,          \* position of the controlling thread inside train()
    epochs,      \* args.epochs
    epoch,       \* loop variable of `for epoch in range(args.epochs)`; -1 = unbound
    idx,         \* training batches consumed in the current epoch
    vidx,        \* validation batches consumed in the current epoch
    weight,      \* model parameters (model.state_dict())
    grad,        \* the parameters' .grad buffer
    lr,          \* optimizer.param_groups[0]["lr"] as <<num, den>> in units of args.lr
    val_loss,    \* local val_loss
    min_loss,    \* local min_loss
    stop_count,  \* local stop_count
    ckpt,        \* contents of en_skipgram.pt
    exported,    \* contents of en_weight.npy / en_bias.npy
    reason,      \* why the epoch loop was left
    \* History variables: they record what the run has done and are read by
    \* no action of the program.
    obs_best,       \* least validation loss of the epochs validated so far (+inf if none)
    obs_best_epoch, \* first epoch whose validation loss was obs_best (-1 if none)
    obs_fails,      \* latest consecutive epochs whose loss was not below all earlier ones
    obs_nonfinite,  \* latest consecutive epochs whose loss was not finite
    writes,         \* number of completed torch.save calls so far
    batch_grad,     \* gradient of the latest training batch's loss (SpecGrad only)
    \* Dataset construction.
    idx_data,     \* the indexed corpus: a sequence of sentences of token indices
    window_size,  \* args.window_size, the window radius
    pairs,        \* cen_data / con_data as a sequence of <<center, context>>
    val_ratio,    \* args.val_ratio as <<num, den>>
    seed,         \* args.seed
    train_dset,   \* indices into pairs of the training subset
    val_dset      \* indices into pairs of the validation subset

prog == <<pc, epochs, epoch, idx, vidx, weight, grad, lr, val_loss, min_loss,
          stop_count, ckpt, exported, reason>>
hist == <<obs_best, obs_best_epoch, obs_fails, obs_nonfinite, writes>>
\* The dataset construction, exercised on its own (SpecPairs, SpecSplit).
data == <<idx_data, window_size, pairs, val_ratio, seed, train_dset, val_dset>>
vars == <<prog, hist, batch_grad, data>>

\* ------------------------------------------------------- float arithmetic
RECURSIVE GCD(_, _)
GCD(a, b) == IF b = 0 THEN a ELSE GCD(b, a % b)

\* A finite non-negative rational n/d in lowest terms.
Fin(n, d) ==
    LET g == GCD(n, d) IN [k |-> "fin", n |-> n \div g, d |-> d \div g]

PosInf == [k |-> "inf", n |-> 0, d |-> 1]
NaN == [k |-> "nan", n |-> 0, d |-> 1]
\* A local variable that has not been assigned yet.
Unbound == [k |-> "unbound", n |-> 0, d |-> 1]

IsFinite(a) == a.k = "fin"

\* val_loss += loss
FAdd(a, b) ==
    IF a.k = "nan" \/ b.k = "nan" THEN NaN
    ELSE IF a.k = "inf" \/ b.k = "inf" THEN PosInf
    ELSE Fin(a.n * b.d + b.n * a.d, a.d * b.d)

\* val_loss /= len(val_loader)
FDiv(a, m) ==
    IF a.k = "nan" THEN NaN
    ELSE IF a.k = "inf" THEN PosInf
    ELSE Fin(a.n, a.d * m)

\* Mutant: a <= b, so that a tie counts as an improvement.
FLessOrEqual(a, b) ==
    /\ a.k # "nan"
    /\ b.k # "nan"
    /\ \/ b.k = "inf"
       \/ a.k = "fin" /\ b.k = "fin" /\ a.n * b.d <= b.n * a.d

\* Mutant: not (a >= b), which is true whenever an operand is NaN.
FLessNotGreaterEqual(a, b) ==
    ~ /\ a.k # "nan"
      /\ b.k # "nan"
      /\ \/ a.k = "inf"
         \/ a.k = "fin" /\ b.k = "fin" /\ a.n * b.d >= b.n * a.d

\* a < b on floats: false whenever an operand is NaN.
FLess(a, b) ==
    /\ a.k # "nan"
    /\ b.k # "nan"
    /\ \/ a.k = "fin" /\ b.k = "inf"
       \/ a.k = "fin" /\ b.k = "fin" /\ a.n * b.d < b.n * a.d

\* The order on losses the history variables use: a is a finite loss strictly
\* below b.
Below(a, b) ==
    /\ a.k = "fin"
    /\ \/ b.k = "inf"
       \/ b.k = "fin" /\ a.n * b.d < b.n * a.d

\* The values criterion(con_output, con_label) can take on one batch.
BatchLosses == {Fin(n, 1) : n \in 0..MaxBatchLoss} \cup {PosInf, NaN}

\* The gradients loss.backward() can add to the .grad buffer on one batch.
Grads == (-MaxGrad)..MaxGrad

Clamp(x, m) == IF x > m THEN m ELSE IF x < -m THEN -m ELSE x

\* ------------------------------------------------------------ operations
NoCheckpoint == [written |-> FALSE, epoch |-> -1, model_state_dict |-> 0, loss |-> Unbound]
NoExport == [written |-> FALSE, en_weight |-> 0]

\* loss.backward(): adds the batch gradient to .grad (the buffer is never zeroed).
Backward(buf, g) == Clamp(buf + g, MaxGrad)

\* optimizer.step(): moves the parameters against the .grad buffer.
OptimizerStep(w, buf) == (w - buf) % (MaxWeight + 1)

\* scheduler.step() of ExponentialLR: lr := lr * gamma.
Decay(r) == <<r[1] * GammaNum, r[2] * GammaDen>>

\* The dataset variables before anything has been computed.
DataIdle ==
    /\ idx_data = <<>>
    /\ window_size = 1
    /\ pairs = <<>>
    /\ val_ratio = <<1, 10>>
    /\ seed = 0
    /\ train_dset = <<>>
    /\ val_dset = <<>>

\* The values of --epochs explored: the non-positive ones, the smallest
\* positive ones, exactly the patience, and the largest budget.
EpochBudgets == {-1, 0, 1, 2, Patience, MaxEpochs}

Init ==
    /\ DataIdle
    /\ pc = "tokenize"
    /\ epochs \in EpochBudgets
    /\ epoch = -1
    /\ idx = 0
    /\ vidx = 0
    /\ weight = 0
    /\ grad = 0
    /\ lr = <<1, 1>>
    /\ val_loss = Unbound
    /\ min_loss = Unbound
    /\ stop_count = 0
    /\ ckpt = NoCheckpoint
    /\ exported = NoExport
    /\ reason = "none"
    /\ obs_best = PosInf
    /\ obs_best_epoch = -1
    /\ obs_fails = 0
    /\ obs_nonfinite = 0
    /\ writes = 0
    /\ batch_grad = 0

\* lines 41-62: seed, device, read the corpus, tokenize and encode it.
Tokenize ==
    /\ pc = "tokenize"
    /\ pc' = "dataset"
    /\ UNCHANGED <<epochs, epoch, idx, vidx, weight, grad, lr, val_loss, min_loss,
                   stop_count, ckpt, exported, reason, hist>>
    /\ UNCHANGED <<data, batch_grad>>

\* lines 64-80: build the pair dataset, split it, create the two loaders.
BuildDataset ==
    /\ pc = "dataset"
    /\ pc' = "setup"
    /\ UNCHANGED <<epochs, epoch, idx, vidx, weight, grad, lr, val_loss, min_loss,
                   stop_count, ckpt, exported, reason, hist>>
    /\ UNCHANGED <<data, batch_grad>>

\* Mutant: min_loss starts at 0 instead of +inf.
SetupMinLossZero ==
    /\ pc = "setup"
    /\ weight' = 0
    /\ grad' = 0
    /\ lr' = <<1, 1>>
    /\ min_loss' = Fin(0, 1)
    /\ stop_count' = 0
    /\ pc' = "loop"
    /\ UNCHANGED <<epochs, epoch, idx, vidx, val_loss, ckpt, exported, reason, hist>>
    /\ UNCHANGED <<data, batch_grad>>

\* lines 82-96: model, optimizer, scheduler, criterion, min_loss, stop_count.
Setup ==
    /\ pc = "setup"
    /\ weight' = 0
    /\ grad' = 0
    /\ lr' = <<1, 1>>
    /\ min_loss' = PosInf
    /\ stop_count' = 0
    /\ pc' = "loop"
    /\ UNCHANGED <<epochs, epoch, idx, vidx, val_loss, ckpt, exported, reason, hist>>
    /\ UNCHANGED <<data, batch_grad>>

\* Mutant: range(args.epochs + 1), one epoch too many.
LoopHeadOffByOne ==
    /\ pc = "loop"
    /\ IF epoch + 1 <= epochs
       THEN /\ epoch' = epoch + 1
            /\ idx' = 0
            /\ pc' = "train"
            /\ UNCHANGED reason
       ELSE /\ pc' = "export"
            /\ reason' = "epoch_budget_exhausted"
            /\ UNCHANGED <<epoch, idx>>
    /\ UNCHANGED <<epochs, vidx, weight, grad, lr, val_loss, min_loss,
                   stop_count, ckpt, exported, hist>>
    /\ UNCHANGED <<data, batch_grad>>

\* line 97: for epoch in range(args.epochs), and lines 98-100.
LoopHead ==
    /\ pc = "loop"
    /\ IF epoch + 1 < epochs
       THEN /\ epoch' = epoch + 1
            /\ idx' = 0
            /\ pc' = "train"
            /\ UNCHANGED reason
       ELSE /\ pc' = "export"
            /\ reason' = "epoch_budget_exhausted"
            /\ UNCHANGED <<epoch, idx>>
    /\ UNCHANGED <<epochs, vidx, weight, grad, lr, val_loss, min_loss,
                   stop_count, ckpt, exported, hist>>
    /\ UNCHANGED <<data, batch_grad>>

\* Mutant: scheduler.step() inside the batch loop.
TrainBatchDecaysPerBatch ==
    /\ pc = "train"
    /\ idx < NumTrainBatches
    /\ \E g \in Grads :
         /\ grad' = Backward(grad, g)
         /\ weight' = OptimizerStep(weight, Backward(grad, g))
    /\ lr' = Decay(lr)
    /\ idx' = idx + 1
    /\ UNCHANGED <<pc, epochs, epoch, vidx, val_loss, min_loss,
                   stop_count, ckpt, exported, reason, hist>>
    /\ UNCHANGED <<data, batch_grad>>

\* lines 101-115 on a batch whose loss has gradient g: forward, loss,
\* backward, optimizer step.
TrainStep(g) ==
    /\ pc = "train"
    /\ idx < NumTrainBatches
    /\ grad' = Backward(grad, g)
    /\ weight' = OptimizerStep(weight, Backward(grad, g))
    /\ idx' = idx + 1
    /\ UNCHANGED <<pc, epochs, epoch, vidx, lr, val_loss, min_loss,
                   stop_count, ckpt, exported, reason, hist>>
    /\ UNCHANGED data

\* lines 101-115: one training batch.
TrainBatch ==
    /\ \E g \in Grads : TrainStep(g)
    /\ UNCHANGED batch_grad

\* The same training batch with its gradient recorded.
TrainBatchObserved == \E g \in Grads : TrainStep(g) /\ batch_grad' = g

\* Mutant: scheduler.step() right after the training loop, before validation.
BeginValidationDecays ==
    /\ pc = "train"
    /\ idx = NumTrainBatches
    /\ val_loss' = Fin(0, 1)
    /\ vidx' = 0
    /\ lr' = Decay(lr)
    /\ pc' = "validate"
    /\ UNCHANGED <<epochs, epoch, idx, weight, grad, min_loss,
                   stop_count, ckpt, exported, reason, hist>>
    /\ UNCHANGED <<data, batch_grad>>

\* lines 117-120: the train loader is exhausted; enter no_grad, reset the sums.
BeginValidation ==
    /\ pc = "train"
    /\ idx = NumTrainBatches
    /\ val_loss' = Fin(0, 1)
    /\ vidx' = 0
    /\ pc' = "validate"
    /\ UNCHANGED <<epochs, epoch, idx, weight, grad, lr, min_loss,
                   stop_count, ckpt, exported, reason, hist>>
    /\ UNCHANGED <<data, batch_grad>>

\* Mutant: the validation batch also runs backward() and optimizer.step().
ValBatchTrains ==
    /\ pc = "validate"
    /\ vidx < NumValBatches
    /\ \E l \in BatchLosses : val_loss' = FAdd(val_loss, l)
    /\ \E g \in Grads :
         /\ grad' = Backward(grad, g)
         /\ weight' = OptimizerStep(weight, Backward(grad, g))
    /\ vidx' = vidx + 1
    /\ UNCHANGED <<pc, epochs, epoch, idx, lr, min_loss,
                   stop_count, ckpt, exported, reason, hist>>
    /\ UNCHANGED <<data, batch_grad>>

\* lines 121-132: one validation batch: forward, loss, val_loss += loss.
ValBatch ==
    /\ pc = "validate"
    /\ vidx < NumValBatches
    /\ \E l \in BatchLosses : val_loss' = FAdd(val_loss, l)
    /\ vidx' = vidx + 1
    /\ UNCHANGED <<pc, epochs, epoch, idx, weight, grad, lr, min_loss,
                   stop_count, ckpt, exported, reason, hist>>
    /\ UNCHANGED <<data, batch_grad>>

\* lines 134-135: the validation loader is exhausted; average the sums.
EndValidation ==
    /\ pc = "validate"
    /\ vidx = NumValBatches
    /\ val_loss' = FDiv(val_loss, NumValBatches)
    /\ pc' = "decide"
    /\ obs_best' = IF Below(val_loss', obs_best) THEN val_loss' ELSE obs_best
    /\ obs_best_epoch' = IF Below(val_loss', obs_best) THEN epoch ELSE obs_best_epoch
    /\ obs_fails' = IF Below(val_loss', obs_best) THEN 0 ELSE obs_fails + 1
    /\ obs_nonfinite' = IF IsFinite(val_loss') THEN 0 ELSE obs_nonfinite + 1
    /\ UNCHANGED <<epochs, epoch, idx, vidx, weight, grad, lr, min_loss,
                   stop_count, ckpt, exported, reason, writes>>
    /\ UNCHANGED <<data, batch_grad>>

\* Mutant: stop_count > 5, one epoch of patience too many.
CheckpointDecisionLateStop ==
    /\ pc = "decide"
    /\ IF FLess(val_loss, min_loss)
       THEN /\ min_loss' = val_loss
            /\ ckpt' = [written |-> TRUE, epoch |-> epoch,
                        model_state_dict |-> weight, loss |-> val_loss]
            /\ stop_count' = 0
            /\ writes' = writes + 1
            /\ pc' = "sched"
            /\ UNCHANGED reason
       ELSE /\ stop_count' = stop_count + 1
            /\ IF stop_count + 1 > Patience
               THEN pc' = "export" /\ reason' = "early_stop"
               ELSE pc' = "sched" /\ UNCHANGED reason
            /\ UNCHANGED <<min_loss, ckpt, writes>>
    /\ UNCHANGED <<epochs, epoch, idx, vidx, weight, grad, lr, val_loss, exported,
                   obs_best, obs_best_epoch, obs_fails, obs_nonfinite>>
    /\ UNCHANGED <<data, batch_grad>>

\* Mutant: the checkpoint is saved every epoch, the comparison only drives
\* min_loss and stop_count.
CheckpointDecisionAlwaysSave ==
    /\ pc = "decide"
    /\ ckpt' = [written |-> TRUE, epoch |-> epoch,
                model_state_dict |-> weight, loss |-> val_loss]
    /\ writes' = writes + 1
    /\ IF FLess(val_loss, min_loss)
       THEN /\ min_loss' = val_loss
            /\ stop_count' = 0
            /\ pc' = "sched"
            /\ UNCHANGED reason
       ELSE /\ stop_count' = stop_count + 1
            /\ IF stop_count + 1 >= Patience
               THEN pc' = "export" /\ reason' = "early_stop"
               ELSE pc' = "sched" /\ UNCHANGED reason
            /\ UNCHANGED min_loss
    /\ UNCHANGED <<epochs, epoch, idx, vidx, weight, grad, lr, val_loss, exported,
                   obs_best, obs_best_epoch, obs_fails, obs_nonfinite>>
    /\ UNCHANGED <<data, batch_grad>>

\* Mutant: stop_count is not reset when a checkpoint is written.
CheckpointDecisionNoReset ==
    /\ pc = "decide"
    /\ IF FLess(val_loss, min_loss)
       THEN /\ min_loss' = val_loss
            /\ ckpt' = [written |-> TRUE, epoch |-> epoch,
                        model_state_dict |-> weight, loss |-> val_loss]
            /\ writes' = writes + 1
            /\ pc' = "sched"
            /\ UNCHANGED <<reason, stop_count>>
       ELSE /\ stop_count' = stop_count + 1
            /\ IF stop_count + 1 >= Patience
               THEN pc' = "export" /\ reason' = "early_stop"
               ELSE pc' = "sched" /\ UNCHANGED reason
            /\ UNCHANGED <<min_loss, ckpt, writes>>
    /\ UNCHANGED <<epochs, epoch, idx, vidx, weight, grad, lr, val_loss, exported,
                   obs_best, obs_best_epoch, obs_fails, obs_nonfinite>>
    /\ UNCHANGED <<data, batch_grad>>

\* lines 137-148: checkpoint decision and early-stop check.
CheckpointDecision ==
    /\ pc = "decide"
    /\ IF FLess(val_loss, min_loss)
       THEN /\ min_loss' = val_loss
            /\ ckpt' = [written |-> TRUE, epoch |-> epoch,
                        model_state_dict |-> weight, loss |-> val_loss]
            /\ stop_count' = 0
            /\ writes' = writes + 1
            /\ pc' = "sched"
            /\ UNCHANGED reason
       ELSE /\ stop_count' = stop_count + 1
            /\ IF stop_count + 1 >= Patience
               THEN pc' = "export" /\ reason' = "early_stop"
               ELSE pc' = "sched" /\ UNCHANGED reason
            /\ UNCHANGED <<min_loss, ckpt, writes>>
    /\ UNCHANGED <<epochs, epoch, idx, vidx, weight, grad, lr, val_loss, exported,
                   obs_best, obs_best_epoch, obs_fails, obs_nonfinite>>
    /\ UNCHANGED <<data, batch_grad>>

\* Mutant: the embedding is also saved at the end of every epoch.
SchedulerStepExports ==
    /\ pc = "sched"
    /\ lr' = Decay(lr)
    /\ exported' = [written |-> TRUE, en_weight |-> weight]
    /\ pc' = "loop"
    /\ UNCHANGED <<epochs, epoch, idx, vidx, weight, grad, val_loss, min_loss,
                   stop_count, ckpt, reason, hist>>
    /\ UNCHANGED <<data, batch_grad>>

\* lines 150-151: scheduler.step(), then back to the loop head.
SchedulerStep ==
    /\ pc = "sched"
    /\ lr' = Decay(lr)
    /\ pc' = "loop"
    /\ UNCHANGED <<epochs, epoch, idx, vidx, weight, grad, val_loss, min_loss,
                   stop_count, ckpt, exported, reason, hist>>
    /\ UNCHANGED <<data, batch_grad>>

\* lines 154-161: save the in-memory model's weight and bias.
Export ==
    /\ pc = "export"
    /\ exported' = [written |-> TRUE, en_weight |-> weight]
    /\ pc' = "done"
    /\ UNCHANGED <<epochs, epoch, idx, vidx, weight, grad, lr, val_loss, min_loss,
                   stop_count, ckpt, reason, hist>>
    /\ UNCHANGED <<data, batch_grad>>

Next ==
    \/ Tokenize
    \/ BuildDataset
    \/ Setup
    \/ LoopHead
    \/ TrainBatch
    \/ BeginValidation
    \/ ValBatch
    \/ EndValidation
    \/ CheckpointDecision
    \/ SchedulerStep
    \/ Export

Spec == Init /\ [][Next]_vars

\* Mutant: the failed write is swallowed (try/except around torch.save) and
\* the epoch goes on.
CheckpointWriteFailsSwallowed ==
    /\ pc = "decide"
    /\ FLess(val_loss, min_loss)
    /\ min_loss' = val_loss
    /\ ckpt' \in {ckpt, NoCheckpoint}
    /\ stop_count' = 0
    /\ pc' = "sched"
    /\ UNCHANGED <<epochs, epoch, idx, vidx, weight, grad, lr, val_loss,
                   exported, reason, hist>>
    /\ UNCHANGED <<data, batch_grad>>

\* lines 137-142 when torch.save raises (an I/O error): min_loss has been
\* assigned (line 138), the file is left as it was or unreadable, and the
\* exception leaves train(), which has no handler.
CheckpointWriteFails ==
    /\ pc = "decide"
    /\ FLess(val_loss, min_loss)
    /\ min_loss' = val_loss
    /\ ckpt' \in {ckpt, NoCheckpoint}
    /\ pc' = "error"
    /\ UNCHANGED <<epochs, epoch, idx, vidx, weight, grad, lr, val_loss,
                   stop_count, exported, reason, hist>>
    /\ UNCHANGED <<data, batch_grad>>

\* The run with the gradient of every training batch recorded.
NextGrad ==
    \/ Tokenize
    \/ BuildDataset
    \/ Setup
    \/ LoopHead
    \/ TrainBatchObserved
    \/ BeginValidation
    \/ ValBatch
    \/ EndValidation
    \/ CheckpointDecision
    \/ SchedulerStep
    \/ Export

SpecGrad == Init /\ [][NextGrad]_vars

\* The run in an environment where checkpoint writes can fail.
NextIO == Next \/ CheckpointWriteFails

SpecIO == Init /\ [][NextIO]_vars

\* The single controlling thread always takes its next step.
FairSpec == Spec /\ WF_vars(Next)

\* ------------------------------------------------- dataset construction
Tokens == 0..MaxToken
Sentences == UNION {[1..n -> Tokens] : n \in 0..MaxSentenceLen}
\* The empty corpus and every corpus of two sentences (either may be empty).
Corpora == {<<>>} \cup {<<a, b>> : a \in Sentences, b \in Sentences}
Windows == 1..MaxWindow
\* Valid validation ratios: the tenths strictly between 0 and 1.
Ratios == {<<k, 10>> : k \in 1..9}
Seeds == 0..MaxSeed
PairSeqs == UNION {[1..n -> {<<0, 1>>, <<1, 0>>}] : n \in 0..MaxPairs}

\* The pairs of centre position i with the context positions j, j+1, ... of
\* its window, in position order.
RECURSIVE ContextPairs(_, _, _, _)
ContextPairs(sen, i, w, j) ==
    IF j > i + w \/ j > Len(sen) THEN <<>>
    ELSE (IF j # i THEN << <<sen[i], sen[j]>> >> ELSE <<>>)
         \o ContextPairs(sen, i, w, j + 1)

\* The pairs of one sentence, centres i, i+1, ... visited in position order.
RECURSIVE CenterPairs(_, _, _)
CenterPairs(sen, w, i) ==
    IF i > Len(sen) THEN <<>>
    ELSE ContextPairs(sen, i, w, IF i - w < 1 THEN 1 ELSE i - w)
         \o CenterPairs(sen, w, i + 1)

RECURSIVE Flatten(_)
Flatten(corpus) ==
    IF corpus = <<>> THEN <<>> ELSE Head(corpus) \o Flatten(Tail(corpus))

\* Mutant: one window slid over the whole corpus, across sentence boundaries.
get_data_flat(corpus, w) == CenterPairs(Flatten(corpus), w, 1)

\* NgramDataset.get_data: the window pairs of every sentence, sentence by
\* sentence.
RECURSIVE get_data(_, _)
get_data(corpus, w) ==
    IF corpus = <<>> THEN <<>>
    ELSE CenterPairs(Head(corpus), w, 1) \o get_data(Tail(corpus), w)

\* round(x) for x = num/den >= 0, halves rounded up.
Round(num, den) == (2 * num + den) \div (2 * den)

\* The seeded shuffle of the indices 1..n.
Shuffled(n, sd) == [k \in 1..n |-> ((k - 1 + sd) % n) + 1]

\* Mutant: both sizes are rounded on their own.
split_both_rounded(ps, r, sd) ==
    LET n == Len(ps)
        nv == Round(r[1] * n, r[2])
        nt == Round((r[2] - r[1]) * n, r[2])
        perm == Shuffled(n, sd)
    IN  [train |-> SubSeq(perm, 1, nt), val |-> SubSeq(perm, n - nv + 1, n)]

\* SkipGramDataset.split: a seeded random split by index into
\* n - round(val_ratio * n) training and round(val_ratio * n) validation pairs.
split(ps, r, sd) ==
    LET n == Len(ps)
        nv == Round(r[1] * n, r[2])
        perm == Shuffled(n, sd)
    IN  [train |-> SubSeq(perm, 1, n - nv), val |-> SubSeq(perm, n - nv + 1, n)]

\* The training controller's variables at the entry of train().
TrainIdle ==
    /\ epochs = MaxEpochs
    /\ epoch = -1
    /\ idx = 0
    /\ vidx = 0
    /\ weight = 0
    /\ grad = 0
    /\ lr = <<1, 1>>
    /\ val_loss = Unbound
    /\ min_loss = Unbound
    /\ stop_count = 0
    /\ ckpt = NoCheckpoint
    /\ exported = NoExport
    /\ reason = "none"
    /\ obs_best = PosInf
    /\ obs_best_epoch = -1
    /\ obs_fails = 0
    /\ obs_nonfinite = 0
    /\ writes = 0
    /\ batch_grad = 0

InitPairs ==
    /\ TrainIdle
    /\ pc = "get_data"
    /\ idx_data \in Corpora
    /\ window_size \in Windows
    /\ pairs = <<>>
    /\ val_ratio = <<1, 10>>
    /\ seed = 0
    /\ train_dset = <<>>
    /\ val_dset = <<>>

\* lines 65-66: cen_data, con_data = ngram_dset.get_data(idx_data).
GetData ==
    /\ pc = "get_data"
    /\ pairs' = get_data(idx_data, window_size)
    /\ pc' = "got_data"
    /\ UNCHANGED <<epochs, epoch, idx, vidx, weight, grad, lr, val_loss, min_loss,
                   stop_count, ckpt, exported, reason, hist>>
    /\ UNCHANGED <<idx_data, window_size, val_ratio, seed, train_dset, val_dset,
                   batch_grad>>

SpecPairs == InitPairs /\ [][GetData]_vars

InitSplit ==
    /\ TrainIdle
    /\ pc = "split"
    /\ idx_data = <<>>
    /\ window_size = 1
    /\ pairs \in PairSeqs
    /\ val_ratio \in Ratios
    /\ seed \in Seeds
    /\ train_dset = <<>>
    /\ val_dset = <<>>

\* lines 67-68: train_dset, val_dset = SkipGramDataset(...).split().
Split ==
    /\ pc = "split"
    /\ train_dset' = split(pairs, val_ratio, seed).train
    /\ val_dset' = split(pairs, val_ratio, seed).val
    /\ pc' = "split_done"
    /\ UNCHANGED <<epochs, epoch, idx, vidx, weight, grad, lr, val_loss, min_loss,
                   stop_count, ckpt, exported, reason, hist>>
    /\ UNCHANGED <<idx_data, window_size, pairs, val_ratio, seed, batch_grad>>

SpecSplit == InitSplit /\ [][Split]_vars

TypeOK ==
    /\ pc \in {"tokenize", "dataset", "setup", "loop", "train", "validate",
               "decide", "sched", "export", "done", "error",
               "get_data", "got_data", "split", "split_done"}
    /\ epoch \in (-1)..MaxEpochs
    /\ stop_count \in 0..Patience
    /\ weight \in 0..MaxWeight

\* ------------------------------------------------------------------ claims
RECURSIVE Pow(_, _)
Pow(b, e) == IF e <= 0 THEN 1 ELSE b * Pow(b, e - 1)

EarlyStopped == reason = "early_stop"
BudgetExhausted == reason = "epoch_budget_exhausted"
LoopLeft == pc \in {"export", "done"}

\* C1: when the validation loss has failed to improve on the best so far for 5
\* consecutive epochs, the controller is in Stopped(early_stop) as soon as that
\* epoch's checkpoint decision is taken; the learning rate then still is the
\* one that epoch trained with (no scheduler step for it), and from then on no
\* training batch, validation batch, scheduler step or checkpoint write happens.
C1_EarlyStop ==
    /\ [](obs_fails >= Patience => (pc = "decide" \/ (EarlyStopped /\ LoopLeft)))
    /\ [](EarlyStopped =>
            /\ obs_fails = Patience
            /\ lr = <<Pow(GammaNum, epoch), Pow(GammaDen, epoch)>>)
    /\ [][EarlyStopped =>
            /\ weight' = weight /\ grad' = grad /\ lr' = lr
            /\ val_loss' = val_loss /\ idx' = idx /\ vidx' = vidx
            /\ epoch' = epoch /\ ckpt' = ckpt /\ hist' = hist]_vars

\* C1 witness: an early stop after 5 non-improving epochs, with budget left.
C1_Witness ==
    /\ pc = "done"
    /\ EarlyStopped
    /\ obs_fails = Patience
    /\ epoch + 1 < epochs

\* C2: every checkpoint write stores a loss strictly below the loss stored by
\* the previous write (hence below every earlier one).
C2_StoredLossDecreases ==
    [][(writes' # writes \/ ckpt' # ckpt) =>
         /\ ckpt'.written
         /\ IsFinite(ckpt'.loss)
         /\ ckpt.written => Below(ckpt'.loss, ckpt.loss)]_vars

\* C2 witness: the checkpoint has been overwritten twice.
C2_Witness == writes >= 3 /\ ckpt.written /\ ckpt.loss = Fin(0, 1)

\* C3: the checkpoint decision writes the checkpoint, sets min_loss and resets
\* stop_count exactly when val_loss is strictly below min_loss; otherwise (a
\* tie included) checkpoint and min_loss stay and stop_count grows by one.
C3_DecisionEffect ==
    [][pc = "decide" =>
         IF Below(val_loss, min_loss)
         THEN /\ ckpt' = [written |-> TRUE, epoch |-> epoch,
                          model_state_dict |-> weight, loss |-> val_loss]
              /\ min_loss' = val_loss
              /\ stop_count' = 0
              /\ writes' = writes + 1
         ELSE /\ ckpt' = ckpt
              /\ min_loss' = min_loss
              /\ stop_count' = stop_count + 1
              /\ writes' = writes]_vars

\* C3 witness: a tie with the best loss has just been decided.
C3_Witness ==
    /\ pc = "sched"
    /\ IsFinite(val_loss)
    /\ val_loss = min_loss
    /\ stop_count = 1
    /\ ckpt.written
    /\ ckpt.epoch = epoch - 1

\* C4: the exported weight is the model state stored in the best checkpoint.
C4_ExportIsBestCheckpoint ==
    (exported.written /\ ckpt.written) =>
        exported.en_weight = ckpt.model_state_dict

\* Number of epochs that completed without triggering the early stop.
CompletedEpochs ==
    IF pc \in {"train", "validate", "decide", "sched"} \/ EarlyStopped
    THEN epoch
    ELSE epoch + 1

\* C5: the learning rate always is initial_lr * 0.7^k, k the number of epochs
\* completed without early stop; epoch e trains with initial_lr * 0.7^e.
C5_LearningRate ==
    lr = <<Pow(GammaNum, CompletedEpochs), Pow(GammaDen, CompletedEpochs)>>

\* C5 witness: the training phase of epoch 3 runs with 0.7^3.
C5_Witness == pc = "train" /\ epoch = 3 /\ idx = 1 /\ lr = <<343, 1000>>

\* The first epoch's checkpoint decision has been taken and no later one.
AfterFirstDecision == epoch = 0 /\ pc \in {"sched", "loop", "export", "done"}

\* C6 as stated: whatever the first validation loss, the first decision
\* writes a checkpoint with epoch 0 and leaves stop_count at 0.
C6_FirstLossAlwaysImproves ==
    AfterFirstDecision => (ckpt.written /\ ckpt.epoch = 0 /\ stop_count = 0)

\* C6 amended: a finite first validation loss is checkpointed with epoch 0 and
\* leaves stop_count at 0; a non-finite one writes nothing and counts as a
\* failure.
C6_FirstFiniteLossImproves ==
    AfterFirstDecision =>
        IF IsFinite(val_loss)
        THEN /\ ckpt = [written |-> TRUE, epoch |-> 0,
                        model_state_dict |-> weight, loss |-> val_loss]
             /\ min_loss = val_loss
             /\ stop_count = 0
        ELSE /\ ~ckpt.written
             /\ min_loss = PosInf
             /\ stop_count = 1

\* C6 witness: the largest finite loss was checkpointed in epoch 0.
C6_Witness ==
    /\ AfterFirstDecision
    /\ pc = "sched"
    /\ ckpt.written
    /\ ckpt.loss = Fin(MaxBatchLoss, 1)

\* C7 as stated: a run whose last epochs all had a non-finite validation loss
\* ends in Stopped(early_stop).
C7_NonFiniteTailEarlyStops ==
    (pc = "done" /\ obs_nonfinite >= 1) => EarlyStopped

\* C7 amended: a non-finite validation loss writes no checkpoint; 5 consecutive
\* non-finite epochs end the run in Stopped(early_stop); a run that ends after
\* fewer such epochs ends with its budget exhausted.
C7_NonFiniteNeverImproves ==
    /\ [][(pc = "decide" /\ ~IsFinite(val_loss)) =>
            /\ ckpt' = ckpt
            /\ writes' = writes
            /\ min_loss' = min_loss]_vars
    /\ [](obs_nonfinite >= Patience => (pc = "decide" \/ EarlyStopped))
    /\ [](obs_nonfinite >= Patience => <>(pc = "done" /\ EarlyStopped))
    /\ []((pc = "done" /\ obs_nonfinite >= 1 /\ ~EarlyStopped) =>
            /\ BudgetExhausted
            /\ obs_nonfinite < Patience
            /\ epoch + 1 = epochs)

\* C7 witness: after a finite best loss, 5 non-finite epochs stopped the run.
C7_Witness ==
    /\ pc = "done"
    /\ EarlyStopped
    /\ obs_nonfinite = Patience
    /\ writes >= 1

\* Number of epochs the loop has started.
ExecutedEpochs == epoch + 1

\* C8: every run terminates, having executed at most `epochs` epochs, in
\* exactly one of Stopped(early_stop) and Stopped(epoch_budget_exhausted); the
\* latter exactly when the whole budget ran without stop_count reaching 5.
C8_Terminates ==
    /\ <>(pc = "done")
    /\ [](ExecutedEpochs <= (IF epochs > 0 THEN epochs ELSE 0))
    /\ [](LoopLeft <=> reason # "none")
    /\ [](LoopLeft => (EarlyStopped \/ BudgetExhausted))
    /\ [](LoopLeft =>
            (BudgetExhausted <=>
               /\ ExecutedEpochs = (IF epochs > 0 THEN epochs ELSE 0)
               /\ stop_count < Patience))
    /\ [][reason # "none" => reason' = reason]_vars

\* C8 witness: a run that used its whole budget with failures pending.
C8_Witness ==
    /\ pc = "done"
    /\ BudgetExhausted
    /\ epochs = Patience
    /\ stop_count = 2

\* C9: the embedding is written once, after the epoch loop was left on either
\* path, and nothing at all happens after it.
C9_ExportOnceAtCompletion ==
    /\ [](exported.written <=> pc = "done")
    /\ [][exported' # exported => (pc = "export" /\ reason # "none")]_vars
    /\ [][pc # "done"]_vars

\* C9 witness: the export after an early stop.
C9_Witness ==
    /\ pc = "done"
    /\ exported.written
    /\ EarlyStopped
    /\ exported.en_weight = weight

\* C10: with a non-positive epoch budget the run does nothing beyond failing:
\* no tokenization, dataset construction, training or export takes place.
C10_InvalidConfigFailsFast ==
    epochs <= 0 => (pc = "tokenize" /\ ~exported.written)

\* C11: a failed checkpoint write aborts the run: from the error state no
\* step is taken (no epoch, no scheduler step, no export), and a run that has
\* not aborted always has min_loss equal to the loss of the stored checkpoint.
C11_CheckpointWriteErrorIsFatal ==
    /\ [][pc # "error"]_vars
    /\ [](pc = "error" => (~exported.written /\ reason = "none"))
    /\ []((pc \notin {"error", "tokenize", "dataset", "setup"}) =>
            IF ckpt.written THEN min_loss = ckpt.loss ELSE min_loss = PosInf)

\* C11 witness: the run aborted on a failed overwrite of an earlier checkpoint.
C11_Witness ==
    /\ pc = "error"
    /\ writes >= 1
    /\ ckpt.written
    /\ min_loss # ckpt.loss
    /\ epoch + 1 < epochs

\* Occurrences of value x in sequence q.
Count(q, x) == Cardinality({k \in 1..Len(q) : q[k] = x})

\* The position pairs (sentence s, centre i, context j) of the corpus whose
\* tokens are a and b: same sentence, j # i, |i - j| <= window_size.
PositionPairs(a, b) ==
    {t \in (1..Len(idx_data)) \X (1..MaxSentenceLen) \X (1..MaxSentenceLen) :
        /\ t[2] <= Len(idx_data[t[1]])
        /\ t[3] <= Len(idx_data[t[1]])
        /\ t[3] # t[2]
        /\ t[3] - t[2] <= window_size
        /\ t[2] - t[3] <= window_size
        /\ idx_data[t[1]][t[2]] = a
        /\ idx_data[t[1]][t[3]] = b}

\* C12: the generated pairs are, with multiplicity, exactly the pairs
\* (sentence[i], sentence[j]) with j # i and |i - j| <= w inside one sentence;
\* sentences shorter than 2 tokens contribute nothing.
C12_WindowPairs ==
    pc = "got_data" =>
        /\ \A k \in 1..Len(pairs) : pairs[k] \in Tokens \X Tokens
        /\ \A a \in Tokens, b \in Tokens :
             Count(pairs, <<a, b>>) = Cardinality(PositionPairs(a, b))
        /\ (\A s \in 1..Len(idx_data) : Len(idx_data[s]) < 2) => pairs = <<>>

\* C12 witness: [a,b,c] with radius 1, next to a one-token sentence, yields
\* exactly (a,b), (b,a), (b,c), (c,b).
C12_Witness ==
    /\ pc = "got_data"
    /\ idx_data = << <<0, 1, 2>>, <<1>> >>
    /\ window_size = 1
    /\ Len(pairs) = 4
    /\ {pairs[k] : k \in 1..Len(pairs)} = {<<0, 1>>, <<1, 0>>, <<1, 2>>, <<2, 1>>}

\* C13: every pair instance (index) lies in exactly one of the two subsets, so
\* the sizes add up to the number of pairs and the subsets are disjoint by
\* index.
C13_SplitPartitions ==
    pc = "split_done" =>
        /\ Len(train_dset) + Len(val_dset) = Len(pairs)
        /\ \A k \in 1..Len(train_dset) : train_dset[k] \in 1..Len(pairs)
        /\ \A k \in 1..Len(val_dset) : val_dset[k] \in 1..Len(pairs)
        /\ \A i \in 1..Len(pairs) : Count(train_dset, i) + Count(val_dset, i) = 1

\* C13 witness: a split with both sides non-empty in which one pair value
\* occurs on both sides.
C13_Witness ==
    /\ pc = "split_done"
    /\ Len(val_dset) >= 2
    /\ Len(train_dset) >= 2
    /\ \E i \in 1..Len(train_dset), j \in 1..Len(val_dset) :
         pairs[train_dset[i]] = pairs[val_dset[j]]

\* The steps of the epoch protocol, recognised by what they change.
TrainingBatchStep == idx' = idx + 1
ValidationBatchStep == vidx' = vidx + 1
DecisionStep == writes' # writes \/ stop_count' = stop_count + 1
DecayStep == lr' # lr

\* The order in which train() moves from phase to phase.
PhaseOrder ==
    {<<"tokenize", "dataset">>, <<"dataset", "setup">>, <<"setup", "loop">>,
     <<"loop", "train">>, <<"loop", "export">>, <<"train", "validate">>,
     <<"validate", "decide">>, <<"decide", "sched">>, <<"decide", "export">>,
     <<"sched", "loop">>, <<"export", "done">>}

\* C14: within an epoch the phases follow each other without interleaving:
\* validation batches only after all training batches, the decision only after
\* all validation batches, the decay only after the decision (and only if the
\* run was not stopped), and the training batches of epoch e only after the
\* decays of all epochs before e.
C14_PhaseOrder ==
    /\ [][pc' # pc => <<pc, pc'>> \in PhaseOrder]_vars
    /\ [][TrainingBatchStep =>
            /\ pc = "train" /\ pc' = "train"
            /\ idx < NumTrainBatches
            /\ lr = <<Pow(GammaNum, epoch), Pow(GammaDen, epoch)>>]_vars
    /\ [][ValidationBatchStep =>
            /\ pc = "validate" /\ pc' = "validate"
            /\ idx = NumTrainBatches /\ vidx < NumValBatches]_vars
    /\ [][DecisionStep =>
            /\ pc = "decide"
            /\ idx = NumTrainBatches /\ vidx = NumValBatches]_vars
    /\ [][DecayStep =>
            /\ pc = "sched" /\ pc' = "loop"
            /\ reason = "none"
            /\ lr = <<Pow(GammaNum, epoch), Pow(GammaDen, epoch)>>
            /\ lr' = <<Pow(GammaNum, epoch + 1), Pow(GammaDen, epoch + 1)>>]_vars
    /\ [][(pc = "train" /\ pc' = "validate") => idx = NumTrainBatches]_vars
    /\ [][(pc = "validate" /\ pc' = "decide") => vidx = NumValBatches]_vars

\* C14 witness: the second epoch trains after the first epoch's validation,
\* decision and decay.
C14_Witness ==
    /\ pc = "train"
    /\ epoch = 1
    /\ idx = 1
    /\ vidx = NumValBatches
    /\ stop_count = 1
    /\ lr = <<GammaNum, GammaDen>>

\* C16: the validation phase leaves parameters, gradient buffer and learning
\* rate as the training phase left them; the parameters change only in a
\* training batch step.
C16_ValidationDoesNotMutate ==
    /\ [][pc = "validate" => (weight' = weight /\ grad' = grad /\ lr' = lr)]_vars
    /\ [][weight' # weight => (pc = "train" /\ TrainingBatchStep)]_vars

\* C16 witness: a validation pass has ended with trained parameters.
C16_Witness ==
    /\ pc = "decide"
    /\ vidx = NumValBatches
    /\ weight # 0
    /\ epoch = 1

\* The checkpoint decision of the current epoch has been taken.
Decided == pc \in {"sched", "loop", "export", "done"} /\ epoch >= 0

\* C17: after a checkpoint decision a checkpoint exists exactly when min_loss
\* is finite; it then stores min_loss, which is the least validation loss seen
\* so far, and the first epoch that had that loss.
C17_SingleBestCheckpoint ==
    Decided =>
        /\ ckpt.written <=> IsFinite(min_loss)
        /\ min_loss = obs_best
        /\ ckpt.written =>
             /\ ckpt.loss = min_loss
             /\ ckpt.epoch = obs_best_epoch
        /\ ~ckpt.written => ckpt = NoCheckpoint

\* C17 witness: a later epoch tied with the best loss and the checkpoint of
\* the earlier epoch stayed.
C17_Witness ==
    /\ pc = "sched"
    /\ epoch = 2
    /\ ckpt.written
    /\ ckpt.epoch = 1
    /\ val_loss = ckpt.loss
    /\ writes = 2

\* Epochs whose checkpoint decision has been taken.
DecidedEpochs == IF pc \in {"train", "validate", "decide"} THEN epoch ELSE epoch + 1

\* C18: stop_count is within 0..5 and counts the epochs decided since the
\* last checkpoint write (since the start if there is none); no training
\* batch runs with stop_count at 5.
C18_StopCounter ==
    (pc \notin {"tokenize", "dataset", "setup"}) =>
        /\ stop_count \in 0..Patience
        /\ stop_count = DecidedEpochs - (ckpt.epoch + 1)
        /\ pc \in {"train", "validate", "decide", "sched", "loop"} => stop_count < Patience

\* C18 witness: three failures after a checkpoint written in epoch 1.
C18_Witness ==
    /\ pc = "train"
    /\ epoch = 5
    /\ ckpt.written
    /\ ckpt.epoch = 1
    /\ stop_count = 3

\* C15: a training batch step moves the parameters by the gradient of that
\* batch's loss alone.
C15_StepUsesBatchGradientOnly ==
    [][TrainingBatchStep => weight' = OptimizerStep(weight, batch_grad')]_vars
====
